---- MODULE Spec2Model ----
(***************************************************************************)
(* Model of the ICE-TCP signaling example (package main):                  *)
(*   src/unnamed/part_000          - the program with the candidate        *)
(*                                   statistics helpers and the TCP-only   *)
(*                                   setting engine;                       *)
(*   src/examples/ice-tcp/main.go  - the program with the pre-started,     *)
(*                                   shared ICE gatherer.                  *)
(* Both files define doSignaling and main; the variable prog says which    *)
(* of the two programs is running.                                         *)
(***************************************************************************)
EXTENDS Integers, Sequences, FiniteSets, TLC

VARIABLES
    prog,           \* which program runs: "part_000" or "ice_tcp_main"
    \* ---- the process and its sessions
    proc,           \* "init" before main has run, then "serving", or "exited"
    networkTypes,   \* the network types the API's setting engine lets ICE gather
    request,        \* per session: the body of the HTTP request
    pc,             \* per session: where doSignaling stands
    peerGatherer,   \* per session: the ICE gatherer of its PeerConnection
    remoteDesc,     \* per session: the remote description is applied
    localDesc,      \* per session: the answer is set as local description
    promise,        \* per session: the gatherComplete channel
    response,       \* per session: the marshalled local description
    keepAlive,      \* per session: the data channel's OnOpen loop and the last
                    \* result of d.SendText
    gatherState,    \* per gatherer: "none", "new", "gathering", "complete"
    gathered,       \* per gatherer: the local candidates found so far
    stdout,         \* what the last connection-state callback printed
    \* ---- inputs and results of the statistics helpers
    build,          \* what the build does where Go leaves the result open
    stats,          \* pc.GetStats(), in the order `range` visits the map
    scs,            \* the setCandidateStats value last built
    id,             \* the argument of getCandidateStats
    found,          \* the result of getCandidateStats
    lp, rp,         \* the arguments of getPriority
    priority,       \* the result of getPriority
    setCandidates,  \* the result of getSetCandidates
    applied         \* the helper applied last

sessionVars == <<proc, networkTypes, request, pc, peerGatherer, remoteDesc, localDesc,
                 promise, response, keepAlive, gatherState, gathered, stdout>>
helperVars == <<build, stats, scs, id, found, lp, rp, priority, setCandidates, applied>>
vars == <<prog, sessionVars, helperVars>>

Programs == {"part_000", "ice_tcp_main"}

(***************************************************************************)
(* Unsigned 64-bit values.  TLC's integers are 32 bits wide, so a uint64   *)
(* is kept as four 16-bit limbs, the lowest first: <<l1, l2, l3, l4>> is   *)
(* l1 + l2*2^16 + l3*2^32 + l4*2^48.                                       *)
(***************************************************************************)
Base == 2 ^ 16
MaxInt32 == 2147483647
MinInt32 == (-MaxInt32) - 1

Zero64 == <<0, 0, 0, 0>>

\* a natural number n < 2^31 as a uint64
NatLimbs(n) == <<n % Base, n \div Base, 0, 0>>

\* a + b, modulo 2^64
AddLimbs(a, b) ==
    LET s1 == a[1] + b[1]
        s2 == a[2] + b[2] + (s1 \div Base)
        s3 == a[3] + b[3] + (s2 \div Base)
        s4 == a[4] + b[4] + (s3 \div Base)
    IN  <<s1 % Base, s2 % Base, s3 % Base, s4 % Base>>

\* a - b, modulo 2^64
SubLimbs(a, b) ==
    LET d1 == a[1] - b[1]
        d2 == a[2] - b[2] - (IF d1 < 0 THEN 1 ELSE 0)
        d3 == a[3] - b[3] - (IF d2 < 0 THEN 1 ELSE 0)
        d4 == a[4] - b[4] - (IF d3 < 0 THEN 1 ELSE 0)
    IN  <<(d1 + Base) % Base, (d2 + Base) % Base, (d3 + Base) % Base, (d4 + Base) % Base>>

\* a < b
LessLimbs(a, b) ==
    \E i \in 1..4 : a[i] < b[i] /\ \A j \in (i+1)..4 : a[j] = b[j]

\* the number of bits of a limb x: 0 for 0, else k with 2^(k-1) <= x < 2^k
BitLen(x) == IF x = 0 THEN 0 ELSE CHOOSE k \in 1..16 : 2 ^ (k-1) <= x /\ x < 2 ^ k

\* the position of the highest set bit of a, -1 for zero
Msb(a) ==
    IF a = Zero64 THEN -1
    ELSE LET top == CHOOSE i \in 1..4 : a[i] # 0 /\ \A j \in (i+1)..4 : a[j] = 0
         IN  16 * (top - 1) + BitLen(a[top]) - 1

\* (1<<32 - 1) * a, exactly, for a < 2^32: a*2^32 - a
TimesPairWeight(a) == SubLimbs(<<0, 0, a[1], a[2]>>, a)

(***************************************************************************)
(* float64: a sign and a magnitude.  Every value the helpers compute is an *)
(* integer below 2^64, so the magnitude is a uint64; a float64 keeps the   *)
(* 53 highest bits of it.                                                  *)
(***************************************************************************)
Mantissa == 53

\* round a magnitude to the nearest float64, ties to even.  At most 11 low
\* bits do not fit, all of them in the lowest limb.
RoundFloat64(a) ==
    LET d == Msb(a) - (Mantissa - 1)          \* the number of low bits that do not fit
        unit == 2 ^ d
        low == a[1] % unit
        kept == <<a[1] - low, a[2], a[3], a[4]>>
        odd == (a[1] \div unit) % 2 = 1
        up == 2 * low > unit \/ (2 * low = unit /\ odd)
    IN  IF d <= 0 THEN a
        ELSE IF up THEN AddLimbs(kept, <<unit, 0, 0, 0>>) ELSE kept

\* float64(p) for an int32 p: exact
Float64(p) ==
    [neg |-> p < 0,
     mag |-> IF p >= 0 THEN NatLimbs(p)
             ELSE IF p = MinInt32 THEN <<0, 2 ^ 15, 0, 0>> ELSE NatLimbs(-p)]

\* the exact sum of two signed magnitudes
ExactSum(x, y) ==
    IF x.neg = y.neg THEN [neg |-> x.neg, mag |-> AddLimbs(x.mag, y.mag)]
    ELSE IF LessLimbs(x.mag, y.mag) THEN [neg |-> y.neg, mag |-> SubLimbs(y.mag, x.mag)]
    ELSE [neg |-> x.neg /\ x.mag # y.mag, mag |-> SubLimbs(x.mag, y.mag)]

MathMin(x, y) == IF x < y THEN x ELSE y
MathMax(x, y) == IF x > y THEN x ELSE y

(***************************************************************************)
(* What Go leaves to the implementation in getPriority:                    *)
(*   fma     - x*y + z may be fused into one operation with one rounding   *)
(*             (arm64, ppc64, s390x, riscv64) or rounded twice (amd64);    *)
(*   negConv - uint64(f) of a negative f is implementation-dependent:      *)
(*             "wrap" is the two's complement of the truncated value (the  *)
(*             integer indefinite value 2^63 when it does not fit int64),  *)
(*             "zero" is saturation.                                       *)
(***************************************************************************)
Builds == [fma : BOOLEAN, negConv : {"wrap", "zero"}]
GoAmd64 == [fma |-> FALSE, negConv |-> "wrap"]

TwoTo63 == <<0, 0, 0, 2 ^ 15>>

\* uint64(f)
Uint64OfFloat(b, f) ==
    IF ~f.neg THEN f.mag
    ELSE IF b.negConv = "zero" THEN Zero64
    ELSE IF LessLimbs(TwoTo63, f.mag) THEN TwoTo63
    ELSE SubLimbs(Zero64, f.mag)

(***************************************************************************)
(* The statistics helpers of part_000.                                     *)
(***************************************************************************)

\* webrtc.ICECandidateStats{}: the zero value
ZeroCandidateStats ==
    [kind |-> "candidate", ID |-> "", Priority |-> 0, NetworkType |-> "",
     Protocol |-> "", CandidateType |-> "", IP |-> "", Port |-> 0, RelayProtocol |-> ""]

\* the value of a nil interface{} element
NilInterface == <<>>

\* a test that takes every candidate pair, nominated or not
IsAnyPair(v) == v.kind = "candidate-pair"

\* newSetCandidateStats, given pc.GetStats() in the order `range` visits it
IsNominatedPair(v) == v.kind = "candidate-pair" /\ v.Nominated
IsCandidate(v) == v.kind = "candidate"
ToCandidatePair(t) == [localID |-> t.LocalCandidateID, remoteID |-> t.RemoteCandidateID]
newSetCandidateStats(st) ==
    LET nominated == SelectSeq(st, IsNominatedPair)
    IN  [candidates |-> SelectSeq(st, IsCandidate),
         nominatedCandidatePairs |-> [i \in 1..Len(nominated) |-> ToCandidatePair(nominated[i])]]

\* a lookup that returns the candidate scanned last when none matches
getCandidateStatsLast(s, cid) ==
    LET hits == {i \in 1..Len(s.candidates) : s.candidates[i].ID = cid}
    IN  IF hits # {} THEN s.candidates[CHOOSE i \in hits : \A j \in hits : i <= j]
        ELSE IF s.candidates = <<>> THEN ZeroCandidateStats
        ELSE s.candidates[Len(s.candidates)]

\* scs.getCandidateStats(id): the first candidate with that ID, else the zero value
getCandidateStats(s, cid) ==
    LET hits == {i \in 1..Len(s.candidates) : s.candidates[i].ID = cid}
    IN  IF hits = {} THEN ZeroCandidateStats
        ELSE s.candidates[CHOOSE i \in hits : \A j \in hits : i <= j]

\* a scorer that weights its first argument, without math.Min and math.Max
getPriorityPositional(b, l, r) ==
    LET lo == Float64(l)
        hi == Float64(r)
        product == [neg |-> lo.neg, mag |-> TimesPairWeight(lo.mag)]
        twice == [neg |-> hi.neg, mag |-> AddLimbs(hi.mag, hi.mag)]
        rounded == [neg |-> product.neg, mag |-> RoundFloat64(product.mag)]
        sum == IF b.fma THEN ExactSum(product, twice) ELSE ExactSum(rounded, twice)
    IN  Uint64OfFloat(b, [neg |-> sum.neg, mag |-> RoundFloat64(sum.mag)])

\* scs.getPriority(lp, rp), as the build b computes it:
\* uint64((1<<32-1)*math.Min(float64(rp), float64(lp)) + 2*math.Max(float64(rp), float64(lp)))
getPriority(b, l, r) ==
    LET lo == Float64(MathMin(r, l))
        hi == Float64(MathMax(r, l))
        product == [neg |-> lo.neg, mag |-> TimesPairWeight(lo.mag)]   \* before rounding
        twice == [neg |-> hi.neg, mag |-> AddLimbs(hi.mag, hi.mag)]      \* exact in float64
        rounded == [neg |-> product.neg, mag |-> RoundFloat64(product.mag)]
        sum == IF b.fma THEN ExactSum(product, twice) ELSE ExactSum(rounded, twice)
    IN  Uint64OfFloat(b, [neg |-> sum.neg, mag |-> RoundFloat64(sum.mag)])

\* the []interface{} appended for one nominated pair
PairReport(b, s, ncp) ==
    LET localCandidate == getCandidateStats(s, ncp.localID)
        remoteCandidate == getCandidateStats(s, ncp.remoteID)
    IN  <<getPriority(b, localCandidate.Priority, remoteCandidate.Priority),
          localCandidate.NetworkType, localCandidate.Protocol, localCandidate.CandidateType,
          localCandidate.IP, localCandidate.Port, localCandidate.RelayProtocol,
          remoteCandidate.NetworkType, remoteCandidate.Protocol, remoteCandidate.CandidateType,
          remoteCandidate.IP, remoteCandidate.Port, remoteCandidate.RelayProtocol>>

\* scs.getSetCandidates(): make([]interface{}, len(pairs)), then one append per pair
getSetCandidates(b, s) ==
    LET n == Len(s.nominatedCandidatePairs)
        made == [i \in 1..n |-> NilInterface]
    IN  made \o [i \in 1..n |-> PairReport(b, s, s.nominatedCandidatePairs[i])]

(***************************************************************************)
(* The inputs the helpers are applied to.                                  *)
(***************************************************************************)
MaxStats == 3       \* the most records pc.GetStats() holds

CandidateStat(cid, prio, nt, ip) ==
    [kind |-> "candidate", ID |-> cid, Priority |-> prio, NetworkType |-> nt,
     Protocol |-> IF nt \in {"tcp4", "tcp6"} THEN "tcp" ELSE "udp",
     CandidateType |-> "host", IP |-> ip, Port |-> 8443, RelayProtocol |-> ""]
PairStat(sid, l, r, nom) ==
    [kind |-> "candidate-pair", ID |-> sid, Nominated |-> nom,
     LocalCandidateID |-> l, RemoteCandidateID |-> r]

\* the records a statistics report is drawn from; R9 is an identifier of no candidate
StatRecords ==
    {CandidateStat("L1", 100, "tcp4", "10.0.0.1"), CandidateStat("R1", 200, "tcp4", "10.0.0.2"),
     CandidateStat("L2", MaxInt32, "tcp6", "fd00::3"),
     PairStat("P1", "L1", "R1", TRUE), PairStat("P2", "L2", "R9", TRUE),
     PairStat("P3", "R1", "L1", FALSE),
     [kind |-> "transport", ID |-> "T1"]}

\* a statistics report: records of distinct keys, in any iteration order
StatsReports ==
    UNION {{st \in [1..n -> StatRecords] : \A i, j \in 1..n : i # j => st[i] # st[j]}
           : n \in 0..MaxStats}

CandidateIDs == {"L1", "R1", "R9"}

\* int32 priorities; -1 is the uint32 0xFFFFFFFF, MinInt32 is 0x80000000
PriorityInputs == {0, 1, 100, 200, 2097153, MaxInt32, -1, MinInt32}

EmptyStats == [candidates |-> <<>>, nominatedCandidatePairs |-> <<>>]

(***************************************************************************)
(* The process: main, the sessions doSignaling creates, their gatherers.   *)
(***************************************************************************)
NumSessions == 2    \* the requests the process receives

Sessions == 1..NumSessions

\* the gatherer setupIceGatherer creates (ice_tcp_main); a session's own
\* gatherer (part_000) carries the session's number
Shared == 0
Gatherers == {Shared} \cup Sessions
NoGatherer == 0 - 1

\* the response body: nothing yet, or the marshalled description's candidates
NoBody == [marshalled |-> FALSE, candidates |-> {}]
Body(cands) == [marshalled |-> TRUE, candidates |-> cands]

NothingPrinted == [printed |-> FALSE]

\* the keep-alive loop of a session: not started, or where it stands and what
\* d.SendText returned last
NoLoop == [loop |-> "none", err |-> "nil"]
Loop(l, e) == [loop |-> l, err |-> e]
Bodies == {"offer", "malformed", "rejected"}

TCPTypes == {"tcp4", "tcp6"}
AllTypes == {"udp4", "udp6", "tcp4", "tcp6"}

\* the local candidates a gatherer can find
LocalCandidates ==
    {CandidateStat("L1", 100, "tcp4", "10.0.0.1"), CandidateStat("L2", MaxInt32, "tcp6", "fd00::3"),
     CandidateStat("L3", 300, "udp4", "10.0.0.1")}

SessionInit ==
    /\ proc = "init"
    /\ networkTypes = {}
    /\ request = [s \in Sessions |-> "none"]
    /\ pc = [s \in Sessions |-> "idle"]
    /\ peerGatherer = [s \in Sessions |-> NoGatherer]
    /\ remoteDesc = [s \in Sessions |-> FALSE]
    /\ localDesc = [s \in Sessions |-> FALSE]
    /\ promise = [s \in Sessions |-> "none"]
    /\ response = [s \in Sessions |-> NoBody]
    /\ keepAlive = [s \in Sessions |-> NoLoop]
    /\ gatherState = [g \in Gatherers |-> "none"]
    /\ gathered = [g \in Gatherers |-> {}]
    /\ stdout = NothingPrinted

HelperInit ==
    /\ build = GoAmd64
    /\ stats = <<>>
    /\ scs = EmptyStats
    /\ id = ""
    /\ found = ZeroCandidateStats
    /\ lp = 0
    /\ rp = 0
    /\ priority = Zero64
    /\ setCandidates = <<>>
    /\ applied = "none"

Init ==
    /\ prog \in Programs
    /\ SessionInit
    /\ HelperInit

\* main, to the point where the server listens.  A failure to listen panics.
Main ==
    /\ proc = "init"
    /\ \E listening \in BOOLEAN :
         IF ~listening
         THEN /\ proc' = "exited"
              /\ UNCHANGED <<networkTypes, gatherState>>
         ELSE /\ proc' = "serving"
              /\ networkTypes' = IF prog = "part_000" THEN TCPTypes ELSE AllTypes
              /\ gatherState' = IF prog = "part_000" THEN gatherState
                                ELSE [gatherState EXCEPT ![Shared] = "gathering"]
    /\ UNCHANGED <<prog, request, pc, peerGatherer, remoteDesc, localDesc, promise,
                   response, keepAlive, gathered, stdout, helperVars>>

\* the handler of session s moves on to the step l
Goto(s, l) == pc' = [pc EXCEPT ![s] = l] /\ UNCHANGED proc

\* a panic that nothing recovers: it ends the process
PanicUnrecovered(s) == pc' = [pc EXCEPT ![s] = "failed"] /\ proc' = "exited"

\* panic(err) in the handler's goroutine: net/http recovers it, the request is
\* dropped and the server goes on
Panic(s) == pc' = [pc EXCEPT ![s] = "failed"] /\ UNCHANGED proc

\* a server that takes a request only when no handler is running
RequestInTurn(s) ==
    /\ proc = "serving"
    /\ pc[s] = "idle"
    /\ \A t \in Sessions : t < s => pc[t] \in {"done", "failed"}
    /\ \E body \in Bodies : request' = [request EXCEPT ![s] = body]
    /\ Goto(s, "newPC")
    /\ UNCHANGED <<prog, networkTypes, peerGatherer, remoteDesc, localDesc,
                   promise, response, keepAlive, gatherState, gathered, stdout, helperVars>>

\* an HTTP request reaches /doSignaling; sessions are numbered as they arrive
Request(s) ==
    /\ proc = "serving"
    /\ pc[s] = "idle"
    /\ \A t \in Sessions : t < s => pc[t] # "idle"
    /\ \E body \in Bodies : request' = [request EXCEPT ![s] = body]
    /\ Goto(s, "newPC")
    /\ UNCHANGED <<prog, networkTypes, peerGatherer, remoteDesc, localDesc,
                   promise, response, keepAlive, gatherState, gathered, stdout, helperVars>>

\* api.NewPeerConnection and the registration of the two callbacks
NewPeerConnection(s) ==
    /\ proc = "serving"
    /\ pc[s] = "newPC"
    /\ \E ok \in BOOLEAN :
         IF ok
         THEN LET g == IF prog = "part_000" THEN s ELSE Shared
              IN  /\ Goto(s, "decode")
                  /\ peerGatherer' = [peerGatherer EXCEPT ![s] = g]
                  /\ gatherState' = IF gatherState[g] = "none"
                                    THEN [gatherState EXCEPT ![g] = "new"] ELSE gatherState
         ELSE Panic(s) /\ UNCHANGED <<peerGatherer, gatherState>>
    /\ UNCHANGED <<prog, networkTypes, request, remoteDesc, localDesc, promise,
                   response, keepAlive, gathered, stdout, helperVars>>

\* a handler that creates the answer right after decoding the offer, without
\* applying it
DecodeOfferThenAnswer(s) ==
    /\ proc = "serving"
    /\ pc[s] = "decode"
    /\ IF request[s] # "malformed" THEN Goto(s, "createAnswer") ELSE Panic(s)
    /\ UNCHANGED <<prog, networkTypes, request, peerGatherer, remoteDesc,
                   localDesc, promise, response, keepAlive, gatherState, gathered, stdout,
                   helperVars>>

\* json.NewDecoder(r.Body).Decode(&offer)
DecodeOffer(s) ==
    /\ proc = "serving"
    /\ pc[s] = "decode"
    /\ IF request[s] # "malformed" THEN Goto(s, "setRemote") ELSE Panic(s)
    /\ UNCHANGED <<prog, networkTypes, request, peerGatherer, remoteDesc,
                   localDesc, promise, response, keepAlive, gatherState, gathered, stdout,
                   helperVars>>

\* a handler that drops the error of SetRemoteDescription
SetRemoteDescriptionUnchecked(s) ==
    /\ proc = "serving"
    /\ pc[s] = "setRemote"
    /\ remoteDesc' = [remoteDesc EXCEPT ![s] = request[s] = "offer"]
    /\ Goto(s, "promise")
    /\ UNCHANGED <<prog, networkTypes, request, peerGatherer, localDesc,
                   promise, response, keepAlive, gatherState, gathered, stdout, helperVars>>

\* peerConnection.SetRemoteDescription(offer)
SetRemoteDescription(s) ==
    /\ proc = "serving"
    /\ pc[s] = "setRemote"
    /\ IF request[s] = "offer"
       THEN /\ remoteDesc' = [remoteDesc EXCEPT ![s] = TRUE]
            /\ Goto(s, "promise")
       ELSE Panic(s) /\ UNCHANGED remoteDesc
    /\ UNCHANGED <<prog, networkTypes, request, peerGatherer, localDesc,
                   promise, response, keepAlive, gatherState, gathered, stdout, helperVars>>

\* a handler that makes its own channel and only registers for the completion
\* event to come, without looking at the gathering state
GatheringCompletePromiseUnchecked(s) ==
    /\ proc = "serving"
    /\ pc[s] = "promise"
    /\ promise' = [promise EXCEPT ![s] = "pending"]
    /\ Goto(s, "createAnswer")
    /\ UNCHANGED <<prog, networkTypes, request, peerGatherer, remoteDesc,
                   localDesc, response, keepAlive, gatherState, gathered, stdout, helperVars>>

\* webrtc.GatheringCompletePromise(peerConnection): the channel is closed at
\* once when gathering is already complete
PromiseFor(g) == IF gatherState[g] = "complete" THEN "done" ELSE "pending"
GatheringCompletePromise(s) ==
    /\ proc = "serving"
    /\ pc[s] = "promise"
    /\ promise' = [promise EXCEPT ![s] = PromiseFor(peerGatherer[s])]
    /\ Goto(s, "createAnswer")
    /\ UNCHANGED <<prog, networkTypes, request, peerGatherer, remoteDesc,
                   localDesc, response, keepAlive, gatherState, gathered, stdout, helperVars>>

\* peerConnection.CreateAnswer(nil)
CreateAnswer(s) ==
    /\ proc = "serving"
    /\ pc[s] = "createAnswer"
    /\ \E ok \in BOOLEAN : IF ok THEN Goto(s, "setLocal") ELSE Panic(s)
    /\ UNCHANGED <<prog, networkTypes, request, peerGatherer, remoteDesc,
                   localDesc, promise, response, keepAlive, gatherState, gathered, stdout,
                   helperVars>>

\* peerConnection.SetLocalDescription(answer): starts the gatherer if it is new
SetLocalDescription(s) ==
    /\ proc = "serving"
    /\ pc[s] = "setLocal"
    /\ \E ok \in BOOLEAN :
         IF ok
         THEN LET g == peerGatherer[s]
              IN  /\ localDesc' = [localDesc EXCEPT ![s] = TRUE]
                  /\ gatherState' = IF gatherState[g] = "new"
                                    THEN [gatherState EXCEPT ![g] = "gathering"]
                                    ELSE gatherState
                  /\ Goto(s, "await")
         ELSE Panic(s) /\ UNCHANGED <<localDesc, gatherState>>
    /\ UNCHANGED <<prog, networkTypes, request, peerGatherer, remoteDesc,
                   promise, response, keepAlive, gathered, stdout, helperVars>>

\* a handler that does not receive from gatherComplete
AwaitNothing(s) ==
    /\ proc = "serving"
    /\ pc[s] = "await"
    /\ Goto(s, "marshal")
    /\ UNCHANGED <<prog, networkTypes, request, peerGatherer, remoteDesc,
                   localDesc, promise, response, keepAlive, gatherState, gathered, stdout,
                   helperVars>>

\* a handler that gives up the wait: a receive with a timeout
AwaitWithTimeout(s) ==
    /\ proc = "serving"
    /\ pc[s] = "await"
    /\ IF promise[s] = "done" THEN Goto(s, "marshal") ELSE Panic(s)
    /\ UNCHANGED <<prog, networkTypes, request, peerGatherer, remoteDesc,
                   localDesc, promise, response, keepAlive, gatherState, gathered, stdout,
                   helperVars>>

\* <-gatherComplete
AwaitGatherComplete(s) ==
    /\ proc = "serving"
    /\ pc[s] = "await"
    /\ promise[s] = "done"
    /\ Goto(s, "marshal")
    /\ UNCHANGED <<prog, networkTypes, request, peerGatherer, remoteDesc,
                   localDesc, promise, response, keepAlive, gatherState, gathered, stdout,
                   helperVars>>

\* *peerConnection.LocalDescription(): the answer with the candidates gathered so far
LocalDescription(s) == gathered[peerGatherer[s]]

\* a handler that marshals answer, the description CreateAnswer returned,
\* which holds no candidate
MarshalAnswer(s) ==
    /\ proc = "serving"
    /\ pc[s] = "marshal"
    /\ \E ok \in BOOLEAN :
         IF ok
         THEN /\ response' = [response EXCEPT ![s] = Body({})]
              /\ Goto(s, "write")
         ELSE Panic(s) /\ UNCHANGED response
    /\ UNCHANGED <<prog, networkTypes, request, peerGatherer, remoteDesc,
                   localDesc, promise, keepAlive, gatherState, gathered, stdout, helperVars>>

\* json.Marshal(*peerConnection.LocalDescription())
Marshal(s) ==
    /\ proc = "serving"
    /\ pc[s] = "marshal"
    /\ \E ok \in BOOLEAN :
         IF ok
         THEN /\ response' = [response EXCEPT ![s] = Body(LocalDescription(s))]
              /\ Goto(s, "write")
         ELSE Panic(s) /\ UNCHANGED response
    /\ UNCHANGED <<prog, networkTypes, request, peerGatherer, remoteDesc,
                   localDesc, promise, keepAlive, gatherState, gathered, stdout, helperVars>>

\* w.Write(response)
Write(s) ==
    /\ proc = "serving"
    /\ pc[s] = "write"
    /\ \E ok \in BOOLEAN : IF ok THEN Goto(s, "done") ELSE Panic(s)
    /\ UNCHANGED <<prog, networkTypes, request, peerGatherer, remoteDesc,
                   localDesc, promise, response, keepAlive, gatherState, gathered, stdout,
                   helperVars>>

\* the gatherer finds one more local candidate of an allowed network type
Discover(g) ==
    /\ proc = "serving"
    /\ gatherState[g] = "gathering"
    /\ \E c \in LocalCandidates \ gathered[g] :
         /\ c.NetworkType \in networkTypes
         /\ gathered' = [gathered EXCEPT ![g] = @ \cup {c}]
    /\ UNCHANGED <<prog, proc, networkTypes, request, pc, peerGatherer, remoteDesc,
                   localDesc, promise, response, keepAlive, gatherState, stdout, helperVars>>

\* the gatherer reports completion: the pending promises of its sessions are done
GatherDone(g) ==
    /\ proc = "serving"
    /\ gatherState[g] = "gathering"
    /\ gatherState' = [gatherState EXCEPT ![g] = "complete"]
    /\ promise' = [s \in Sessions |->
                     IF peerGatherer[s] = g /\ promise[s] = "pending" THEN "done"
                     ELSE promise[s]]
    /\ UNCHANGED <<prog, proc, networkTypes, request, pc, peerGatherer, remoteDesc,
                   localDesc, response, keepAlive, gathered, stdout, helperVars>>


\* every ordering of a set of records: the orders `range` may visit a map in
RECURSIVE Orders(_)
Orders(S) ==
    IF S = {} THEN {<<>>}
    ELSE UNION {{<<x>> \o o : o \in Orders(S \ {x})} : x \in S}

\* pc.GetStats() of a session: nothing yet, or the selected pair and its two
\* candidates, in any order
SessionReports ==
    {<<>>} \cup Orders({CandidateStat("L1", 100, "tcp4", "10.0.0.1"),
                        CandidateStat("R1", 200, "tcp4", "10.0.0.2"),
                        PairStat("P1", "L1", "R1", TRUE)})

\* a callback that builds the reports without the snapshot's candidates, so
\* that every lookup misses
PrintedReportsUnresolved(b, st) ==
    LET cps == newSetCandidateStats(st)
    IN  [printed |-> TRUE,
         STATS |-> getSetCandidates(b, [cps EXCEPT !.candidates = <<>>]),
         NOMINATED |-> cps.nominatedCandidatePairs,
         CANDIDATES |-> cps.candidates]

\* what the callback of part_000 prints for the statistics visited in order st
PrintedReports(b, st) ==
    LET cps == newSetCandidateStats(st)
    IN  [printed |-> TRUE,
         STATS |-> getSetCandidates(b, cps),
         NOMINATED |-> cps.nominatedCandidatePairs,
         CANDIDATES |-> cps.candidates]

\* what the callback of ice_tcp_main prints: the map itself, which fmt sorts by key
PrintedStats(st) == [printed |-> TRUE, Stats |-> {st[i] : i \in 1..Len(st)}]

ReportOutputs == {PrintedReports(b, st) : b \in Builds, st \in SessionReports}
StatsOutputs == {PrintedStats(st) : st \in SessionReports}

\* the callback of OnICEConnectionStateChange; the ICE agent runs once both
\* descriptions are set
ConnectionStateChange(s) ==
    /\ proc = "serving"
    /\ remoteDesc[s] /\ localDesc[s]
    /\ \E out \in (IF prog = "part_000" THEN ReportOutputs ELSE StatsOutputs) : stdout' = out
    /\ UNCHANGED <<prog, proc, networkTypes, request, pc, peerGatherer, remoteDesc,
                   localDesc, promise, response, keepAlive, gatherState, gathered, helperVars>>

\* the remote peer, holding the answer, opens a data channel: OnOpen starts the loop
DataChannelOpen(s) ==
    /\ proc = "serving"
    /\ pc[s] = "done"
    /\ keepAlive[s] = NoLoop
    /\ keepAlive' = [keepAlive EXCEPT ![s] = Loop("ticking", "nil")]
    /\ UNCHANGED <<prog, proc, networkTypes, request, pc, peerGatherer, remoteDesc,
                   localDesc, promise, response, gatherState, gathered, stdout, helperVars>>

\* errors.Is(err, target) for errors that wrap nothing
ErrorsIs(err, target) == err = target

\* what d.SendText returns
SendResults == {"nil", "io.ErrClosedPipe", "fault"}

\* a loop that panics on every error of d.SendText
KeepAliveTickStrict(s) ==
    /\ proc = "serving"
    /\ keepAlive[s].loop = "ticking"
    /\ \E err \in SendResults :
         IF err = "nil" THEN UNCHANGED <<keepAlive, proc>>
         ELSE keepAlive' = [keepAlive EXCEPT ![s] = Loop("panicked", err)] /\ proc' = "exited"
    /\ UNCHANGED <<prog, networkTypes, request, pc, peerGatherer, remoteDesc,
                   localDesc, promise, response, gatherState, gathered, stdout, helperVars>>

\* one tick of the loop: d.SendText, return on a closed pipe, panic otherwise.
\* The panic is in the callback's goroutine, where nothing recovers it.
KeepAliveTick(s) ==
    /\ proc = "serving"
    /\ keepAlive[s].loop = "ticking"
    /\ \E err \in SendResults :
         IF err = "nil" THEN UNCHANGED <<keepAlive, proc>>
         ELSE IF ErrorsIs("io.ErrClosedPipe", err)
         THEN keepAlive' = [keepAlive EXCEPT ![s] = Loop("stopped", err)] /\ UNCHANGED proc
         ELSE keepAlive' = [keepAlive EXCEPT ![s] = Loop("panicked", err)] /\ proc' = "exited"
    /\ UNCHANGED <<prog, networkTypes, request, pc, peerGatherer, remoteDesc,
                   localDesc, promise, response, gatherState, gathered, stdout, helperVars>>

Next ==
    \/ Main
    \/ \E s \in Sessions :
         \/ Request(s)
         \/ NewPeerConnection(s)
         \/ DecodeOffer(s)
         \/ SetRemoteDescription(s)
         \/ GatheringCompletePromise(s)
         \/ CreateAnswer(s)
         \/ SetLocalDescription(s)
         \/ AwaitGatherComplete(s)
         \/ Marshal(s)
         \/ Write(s)
         \/ ConnectionStateChange(s)
         \/ DataChannelOpen(s)
         \/ KeepAliveTick(s)
    \/ \E g \in Gatherers : Discover(g) \/ GatherDone(g)

Spec == Init /\ [][Next]_vars

(***************************************************************************)
(* The statistics helpers applied to inputs drawn from bounded sets.       *)
(***************************************************************************)
PureInit ==
    /\ prog = "part_000"
    /\ build \in Builds
    /\ SessionInit
    /\ scs = EmptyStats
    /\ found = ZeroCandidateStats
    /\ priority = Zero64
    /\ setCandidates = <<>>
    /\ applied = "none"
    /\ \/ stats = <<>> /\ id = "L1" /\ lp \in PriorityInputs /\ rp \in PriorityInputs
       \/ stats \in StatsReports /\ id \in CandidateIDs /\ lp = 0 /\ rp = 0

ApplyNewSetCandidateStats ==
    /\ scs' = newSetCandidateStats(stats)
    /\ applied' = "newSetCandidateStats"
    /\ UNCHANGED <<prog, build, sessionVars, stats, id, found, lp, rp, priority, setCandidates>>

ApplyGetCandidateStats ==
    /\ found' = getCandidateStats(scs, id)
    /\ applied' = "getCandidateStats"
    /\ UNCHANGED <<prog, build, sessionVars, stats, scs, id, lp, rp, priority, setCandidates>>

ApplyGetPriority ==
    /\ priority' = getPriority(build, lp, rp)
    /\ applied' = "getPriority"
    /\ UNCHANGED <<prog, build, sessionVars, stats, scs, id, found, lp, rp, setCandidates>>

ApplyGetSetCandidates ==
    /\ setCandidates' = getSetCandidates(build, scs)
    /\ applied' = "getSetCandidates"
    /\ UNCHANGED <<prog, build, sessionVars, stats, scs, id, found, lp, rp, priority>>

PureNext ==
    \/ ApplyNewSetCandidateStats
    \/ ApplyGetCandidateStats
    \/ ApplyGetPriority
    \/ ApplyGetSetCandidates

PureSpec == PureInit /\ [][PureNext]_vars

(***************************************************************************)
(* The scheduler runs a goroutine that can run: a handler whose channel    *)
(* receive, marshal or write can proceed does proceed.                     *)
(***************************************************************************)
FairSpec ==
    /\ Spec
    /\ \A s \in Sessions :
         WF_vars(AwaitGatherComplete(s)) /\ WF_vars(Marshal(s)) /\ WF_vars(Write(s))

(***************************************************************************)
(* The states of the signaling handler, by the place doSignaling is at.    *)
(***************************************************************************)
HandlerState(s) ==
    CASE pc[s] = "idle" -> "NoRequest"
      [] pc[s] \in {"newPC", "decode", "setRemote"} -> "AwaitingOffer"
      [] pc[s] \in {"promise", "createAnswer", "setLocal"} -> "RemoteDescriptionSet"
      [] pc[s] = "await" -> "AwaitingGatherComplete"
      [] pc[s] \in {"marshal", "write"} -> "AnswerReady"
      [] pc[s] = "done" -> "Responded"
      [] pc[s] = "failed" -> "Failed"

\* the int32 p read as the uint32 of the same 32 bits
Uint32(p) ==
    IF p >= 0 THEN NatLimbs(p)
    ELSE LET m == (p + MaxInt32) + 1 IN <<m % Base, (m \div Base) + 2 ^ 15, 0, 0>>

\* (2^32 - 1) * min(a, b) + 2 * max(a, b), exactly, for uint32 a and b
PairPriority(a, b) ==
    LET lo == IF LessLimbs(a, b) THEN a ELSE b
        hi == IF LessLimbs(a, b) THEN b ELSE a
    IN  AddLimbs(TimesPairWeight(lo), AddLimbs(hi, hi))

(***************************************************************************)
(* The claims.                                                             *)
(***************************************************************************)

\* C1: the response is written only once the session's gatherComplete
\* channel is closed: no state has a written response and an open channel.
C1_ResponseAfterBarrier ==
    \A s \in Sessions : pc[s] = "done" => promise[s] = "done"

\* a response is written; its barrier was created pending or already done
C1_Witness ==
    \E s \in Sessions : pc[s] = "done" /\ promise[s] = "done" /\ response[s].candidates # {}

\* C2: getSetCandidates returns exactly as many elements as the snapshot has
\* nominated pairs.
C2_OneReportPerPair ==
    applied = "getSetCandidates" => Len(setCandidates) = Len(scs.nominatedCandidatePairs)

\* C3: getPriority returns (2^32 - 1) * min + 2 * max of its two uint32
\* inputs, exactly, as a uint64.
C3_PriorityIsExact ==
    applied = "getPriority" => priority = PairPriority(Uint32(lp), Uint32(rp))

\* C4: getPriority(a, b) = getPriority(b, a).
C4_PrioritySymmetric ==
    applied = "getPriority" => priority = getPriority(build, rp, lp)

\* getPriority was applied to two different priorities, the larger one first
C4_Witness ==
    /\ applied = "getPriority"
    /\ lp = 200 /\ rp = 100
    /\ priority = PairPriority(NatLimbs(100), NatLimbs(200))

\* C5: getCandidateStats on a snapshot with no candidate of that identifier
\* (an empty snapshot included) returns the zero-value record; the lookup is
\* defined on every snapshot and identifier.
C5_LookupMissIsZero ==
    applied = "getCandidateStats"
        => /\ (\A i \in 1..Len(scs.candidates) : scs.candidates[i].ID # id)
                => found = ZeroCandidateStats
           /\ found \in {ZeroCandidateStats} \cup {scs.candidates[i] : i \in 1..Len(scs.candidates)}

\* the lookup missed in a snapshot that holds candidates
C5_Witness ==
    /\ applied = "getCandidateStats"
    /\ scs.candidates # <<>>
    /\ \A i \in 1..Len(scs.candidates) : scs.candidates[i].ID # id
    /\ found = ZeroCandidateStats

\* C6: a request whose body is malformed, or whose offer the transport
\* rejects, is Failed as soon as it leaves AwaitingOffer: the barrier is not
\* created, no answer is set, no response is marshalled or written.
C6_BadOfferFailsAtOnce ==
    \A s \in Sessions :
        (request[s] \in {"malformed", "rejected"} /\ HandlerState(s) \notin {"NoRequest", "AwaitingOffer"})
            => /\ HandlerState(s) = "Failed"
               /\ ~remoteDesc[s]
               /\ ~localDesc[s]
               /\ promise[s] = "none"
               /\ response[s] = NoBody

\* a malformed body failed at the decoder, a rejected offer at SetRemoteDescription
C6_Witness ==
    \E s, t \in Sessions :
        /\ request[s] = "malformed" /\ pc[s] = "failed" /\ peerGatherer[s] # NoGatherer
        /\ request[t] = "rejected" /\ pc[t] = "failed" /\ peerGatherer[t] # NoGatherer

\* C7: every local candidate found for a session, and every candidate of a
\* response, has a TCP network type.
C7_OnlyTCPCandidates ==
    \A s \in Sessions :
        /\ peerGatherer[s] # NoGatherer
              => \A c \in gathered[peerGatherer[s]] : c.NetworkType \in TCPTypes
        /\ \A c \in response[s].candidates : c.NetworkType \in TCPTypes

\* C8: a step that moves one handler to Failed changes nothing else: the
\* process goes on, every other session and every gatherer is as before.
C8_FailureIsolated ==
    [][\A s \in Sessions :
         (pc[s] # "failed" /\ pc'[s] = "failed")
            => /\ proc' = "serving"
               /\ \A t \in Sessions \ {s} : pc'[t] = pc[t]
               /\ UNCHANGED <<networkTypes, request, peerGatherer, remoteDesc, localDesc,
                              promise, response, keepAlive, gatherState, gathered, stdout>>]_vars

\* one request has failed and another, in the same process, is answered
C8_Witness ==
    \E s, t \in Sessions : pc[s] = "failed" /\ pc[t] = "done" /\ proc = "serving"

\* C9: a handler parked at the barrier whose discovery has completed reaches
\* AnswerReady, and from AnswerReady it reaches Responded, or Failed when
\* marshalling or writing fails.
C9_ReleasedHandlerResponds ==
    \A s \in Sessions :
        /\ (pc[s] = "await" /\ gatherState[peerGatherer[s]] = "complete")
              ~> (HandlerState(s) = "AnswerReady")
        /\ (HandlerState(s) = "AnswerReady") ~> (HandlerState(s) \in {"Responded", "Failed"})

\* C10: a written response holds every local candidate found for its session.
C10_ResponseHasAllCandidates ==
    \A s \in Sessions : pc[s] = "done" => gathered[peerGatherer[s]] \subseteq response[s].candidates

\* a response with two candidates is written
C10_Witness ==
    \E s \in Sessions : pc[s] = "done" /\ Cardinality(response[s].candidates) >= 2

\* a <= b for two uint64
LessEq64(a, b) == a = b \/ LessLimbs(a, b)

\* C11: getPriority never returns less when the smaller of its two inputs is
\* raised (and stays the smaller), nor when the larger one is raised; the
\* inputs are ordered as the uint32 priorities they carry.
C11_PriorityMonotone ==
    applied = "getPriority"
        => LET below(a, b) == LessEq64(Uint32(a), Uint32(b))
               lo == IF below(lp, rp) THEN lp ELSE rp
               hi == IF below(lp, rp) THEN rp ELSE lp
           IN  \A x \in PriorityInputs :
                   /\ (below(lo, x) /\ below(x, hi)) => LessEq64(priority, getPriority(build, x, hi))
                   /\ below(hi, x) => LessEq64(priority, getPriority(build, lo, x))

\* the last connection-state callback printed the pair reports of one snapshot
\* of the session's statistics
EmittedReports ==
    /\ DOMAIN stdout = {"printed", "STATS", "NOMINATED", "CANDIDATES"}
    /\ \E st \in SessionReports :
         /\ newSetCandidateStats(st).candidates = stdout.CANDIDATES
         /\ newSetCandidateStats(st).nominatedCandidatePairs = stdout.NOMINATED
    /\ \E b \in Builds :
         stdout.STATS = getSetCandidates(b, [candidates |-> stdout.CANDIDATES,
                                             nominatedCandidatePairs |-> stdout.NOMINATED])

\* the last connection-state callback printed the statistics collection as it is
EmittedRawStats ==
    /\ DOMAIN stdout = {"printed", "Stats"}
    /\ \E st \in SessionReports : stdout.Stats = {st[i] : i \in 1..Len(st)}

C13_ParkedUntilComplete ==
    [][\A s \in Sessions :
         (pc[s] = "await" /\ gatherState[peerGatherer[s]] # "complete") => pc'[s] = "await"]_vars

\* a handler is parked, its discovery still running, while a later request
\* has been answered
C13_Witness ==
    \E s, t \in Sessions :
        /\ pc[s] = "await" /\ promise[s] = "pending"
        /\ gatherState[peerGatherer[s]] = "gathering"
        /\ pc[t] = "done"

\* the place of a handler state in the order of the state machine
StateRank(h) ==
    CASE h = "NoRequest" -> 0
      [] h = "AwaitingOffer" -> 1
      [] h = "RemoteDescriptionSet" -> 2
      [] h = "AwaitingGatherComplete" -> 3
      [] h = "AnswerReady" -> 4
      [] h = "Responded" -> 5
      [] h = "Failed" -> 6

\* C14: a handler moves from a state to the next one of AwaitingOffer,
\* RemoteDescriptionSet, AwaitingGatherComplete, AnswerReady, Responded, or
\* to Failed, and nowhere else; Responded and Failed are left no more; the
\* answer is created with the remote description applied, and the barrier is
\* awaited with the answer set as local description.
C14_StatesInOrder ==
    [][\A s \in Sessions :
         LET h == HandlerState(s)
             next == HandlerState(s)'
         IN  /\ \/ next = h
                \/ StateRank(h) < 5 /\ StateRank(next) = StateRank(h) + 1
                \/ StateRank(h) \in 1..4 /\ next = "Failed"
             /\ pc'[s] \in {"setLocal", "await", "marshal", "write", "done"} => remoteDesc'[s]
             /\ pc'[s] \in {"await", "marshal", "write", "done"} => localDesc'[s]
             /\ pc'[s] \in {"await", "marshal", "write", "done"} => promise'[s] # "none"]_vars

\* a handler has gone through every state to Responded, another has failed
C14_Witness ==
    \E s, t \in Sessions :
        /\ pc[s] = "done" /\ remoteDesc[s] /\ localDesc[s] /\ response[s].marshalled
        /\ pc[t] = "failed" /\ localDesc[t]

\* C15: the i-th element getSetCandidates returns is the report of the i-th
\* nominated pair of the snapshot: the attributes of the two records looked
\* up for the pair and the priority of their two priorities; candidates L1
\* (priority 100) and R1 (priority 200) with the pair (L1, R1) give one
\* report, of priority 429496730300 = 100 * 2^32 + 700.
C15_IthReportIsIthPair ==
    applied = "getSetCandidates"
        => /\ \A i \in 1..Len(scs.nominatedCandidatePairs) :
                /\ i <= Len(setCandidates)
                /\ setCandidates[i] = PairReport(build, scs, scs.nominatedCandidatePairs[i])
           /\ (/\ {scs.candidates[i].ID : i \in 1..Len(scs.candidates)} = {"L1", "R1"}
               /\ scs.nominatedCandidatePairs = <<[localID |-> "L1", remoteID |-> "R1"]>>)
                => /\ Len(setCandidates) = 1
                   /\ setCandidates[1][1] = <<700, 0, 100, 0>>

\* how often the value x occurs in the sequence q
Occurrences(q, x) == Cardinality({i \in 1..Len(q) : q[i] = x})

\* C16: the snapshot newSetCandidateStats builds holds each candidate record
\* of the statistics once, and one pair of identifiers for each pair record
\* that is nominated, and nothing else; nothing comes from a pair that is not
\* nominated or from a record of another kind; empty statistics give the
\* empty snapshot.
C16_SnapshotPartition ==
    applied = "newSetCandidateStats"
        => LET records == {stats[i] : i \in 1..Len(stats)}
               cands == {r \in records : r.kind = "candidate"}
               pairs == {r \in records : r.kind = "candidate-pair" /\ r.Nominated}
           IN  /\ Len(scs.candidates) = Cardinality(cands)
               /\ \A c \in cands : Occurrences(scs.candidates, c) = 1
               /\ Len(scs.nominatedCandidatePairs) = Cardinality(pairs)
               /\ \A r \in pairs :
                      Occurrences(scs.nominatedCandidatePairs,
                                  [localID |-> r.LocalCandidateID,
                                   remoteID |-> r.RemoteCandidateID]) = 1
               /\ stats = <<>> => scs = EmptyStats

\* the snapshot of a candidate, a pair that is not nominated and a transport
\* record holds the candidate only
C16_Witness ==
    /\ applied = "newSetCandidateStats"
    /\ {stats[i].kind : i \in 1..Len(stats)} = {"candidate", "candidate-pair", "transport"}
    /\ \A i \in 1..Len(stats) : stats[i].kind = "candidate-pair" => ~stats[i].Nominated
    /\ Len(scs.candidates) = 1
    /\ scs.nominatedCandidatePairs = <<>>

\* C17: no two sessions have the same gatherer: the discovery state and the
\* candidates of a session are its own.
C17_GatherersPrivate ==
    \A s, t \in Sessions :
        (s # t /\ peerGatherer[s] # NoGatherer /\ peerGatherer[t] # NoGatherer)
            => peerGatherer[s] # peerGatherer[t]

\* a step of the handler of session s that takes it forward
Forward(s) ==
    /\ \/ NewPeerConnection(s)
       \/ DecodeOffer(s)
       \/ SetRemoteDescription(s)
       \/ GatheringCompletePromise(s)
       \/ CreateAnswer(s)
       \/ SetLocalDescription(s)
       \/ AwaitGatherComplete(s)
       \/ Marshal(s)
       \/ Write(s)
    /\ pc'[s] # "failed"

\* C18: while a handler is parked on its barrier, every other request can be
\* taken and can take its next step, up to the response, unless its own
\* barrier is unsatisfied, in which case its discovery can complete; and the
\* connection-state callback of any session can run.
C18_ParkedBlocksNoOne ==
    \A s \in Sessions :
        (proc = "serving" /\ pc[s] = "await" /\ promise[s] = "pending")
            => /\ \A t \in Sessions \ {s} :
                    /\ (pc[t] = "idle" /\ \A u \in Sessions : u < t => pc[u] # "idle")
                           => ENABLED Request(t)
                    /\ (/\ request[t] = "offer"
                        /\ pc[t] \notin {"idle", "done", "failed"}
                        /\ ~(pc[t] = "await" /\ promise[t] = "pending"))
                           => ENABLED Forward(t)
                    /\ (pc[t] = "await" /\ promise[t] = "pending")
                           => ENABLED GatherDone(peerGatherer[t])
               /\ \A u \in Sessions :
                    (remoteDesc[u] /\ localDesc[u]) => ENABLED ConnectionStateChange(u)

\* one handler is still parked; a request that came after it is answered and
\* a connection-state callback has printed
C18_Witness ==
    \E s, t \in Sessions :
        /\ s < t
        /\ pc[s] = "await" /\ promise[s] = "pending"
        /\ pc[t] = "done"
        /\ stdout.printed
        /\ proc = "serving"

\* C19: when d.SendText of a session's keep-alive loop fails with the closed
\* channel's error, that loop stops for good and nothing else changes: no
\* handler fails, the process goes on, the other sessions are as before.
C19_ClosedChannelSwallowed ==
    [][\A s \in Sessions :
         /\ (keepAlive[s].loop = "ticking" /\ keepAlive'[s].err = "io.ErrClosedPipe")
               => /\ keepAlive'[s].loop = "stopped"
                  /\ proc' = "serving"
                  /\ \A t \in Sessions \ {s} : keepAlive'[t] = keepAlive[t]
                  /\ UNCHANGED <<pc, request, peerGatherer, remoteDesc, localDesc, promise,
                                 response, gatherState, gathered>>
         /\ keepAlive[s].loop = "stopped" => keepAlive'[s] = keepAlive[s]]_vars

\* the loop of one session has stopped on a closed channel; the process
\* serves on and the loop of another session keeps ticking
C19_Witness ==
    \E s, t \in Sessions :
        /\ keepAlive[s] = Loop("stopped", "io.ErrClosedPipe")
        /\ keepAlive[t].loop = "ticking"
        /\ pc[s] = "done" /\ pc[t] = "done"
        /\ proc = "serving"

\* C20: the completion of a session's discovery is never lost.  The channel
\* exists before the local description is set, and before the session's own
\* gatherer is started; whenever discovery is complete the channel is closed
\* and the handler at the receive can go on, whether completion came while
\* the handler waited, before it reached the receive, or before the request.
C20_NoLostCompletion ==
    \A s \in Sessions :
        /\ localDesc[s] => promise[s] # "none"
        /\ (prog = "part_000" /\ gatherState[s] \in {"gathering", "complete"})
              => promise[s] # "none"
        /\ (promise[s] # "none" /\ gatherState[peerGatherer[s]] = "complete")
              => promise[s] = "done"
        /\ (proc = "serving" /\ pc[s] = "await" /\ gatherState[peerGatherer[s]] = "complete")
              => ENABLED AwaitGatherComplete(s)

\* with the gatherer started by main, discovery was complete before the
\* handler set its local description: its channel is closed all the same
C20_Witness ==
    /\ prog = "ice_tcp_main"
    /\ \E s \in Sessions :
         /\ pc[s] = "setLocal"
         /\ gatherState[peerGatherer[s]] = "complete"
         /\ promise[s] = "done"

====
